---------------------------- MODULE Spec2Model ----------------------------
(***************************************************************************)
(* The merge worker of pm-merge: the scan / batch / execute / retry loop   *)
(* of main(), its quota tracker, and the shutdown handler.                  *)
(*                                                                         *)
(* The worker is a single async function.  Every value of pc names an      *)
(* await at which main() is suspended; one action is the continuation that *)
(* runs from the completion of that await up to the next await.            *)
(***************************************************************************)
EXTENDS Integers, Sequences, FiniteSets, TLC

(***************************************************************************)
(* Bounds of the model.                                                    *)
(***************************************************************************)
MaxTicks == 2          \* the clock advances at most this many half hours
MaxMarkets == 3        \* descriptors returned by one fetchMarkets
MaxBalance == 2        \* largest token balance read from the chain
MaxBatchSize == 2      \* largest configured CONFIG.BATCH_SIZE
QuotaLimit == 2        \* the configured CONFIG.HOURLY_QUOTA_LIMIT
MaxSignals == 2        \* SIGINT / SIGTERM deliveries
MaxMsgLen == 4         \* tokens in an error text given to getRelayerBackoffMs

(***************************************************************************)
(* Program constants.                                                      *)
(***************************************************************************)
hourMs == 60 * 60 * 1000
maxAttempts_Two == 1 + 1

maxAttempts == 3

\* CONFIG.MIN_MERGE_AMOUNT as configured (MIN_MERGE_AMOUNT in the environment),
\* in the smallest token unit
MIN_MERGE_AMOUNT == 2
TickMs == 30 * 60 * 1000    \* granularity of Date.now() in the model

Min(a, b) == IF a < b THEN a ELSE b

(***************************************************************************)
(* Optional values (number | null).                                        *)
(***************************************************************************)
Null == << >>
Some(x) == << x >>

(***************************************************************************)
(* Error texts are sequences of tokens: a decimal digit is one token, and  *)
(* each fixed phrase the code looks for is one token.                      *)
(***************************************************************************)
Digits == {"0", "1", "2"}
DigitValue(d) == CASE d = "0" -> 0 [] d = "1" -> 1 [] d = "2" -> 2
T_RESETS == "resets in "
T_RESETS_UC == "Resets In "
T_SECONDS == " seconds"
T_UNITS == " units remaining"
T_TEXT == "quota exceeded: "

\* String.prototype.toLowerCase on a token (the regular expression has flag i)
ToLower(t) == IF t = T_RESETS_UC THEN T_RESETS ELSE t

\* String.prototype.includes
Includes(text, pat) ==
    \E k \in 1..(Len(text) - Len(pat) + 1) :
        SubSeq(text, k, k + Len(pat) - 1) = pat

\* Number(match[1]) of a run of decimal digits
RECURSIVE NumberOf(_)
NumberOf(ds) ==
    IF ds = << >> THEN 0
    ELSE 10 * NumberOf(SubSeq(ds, 1, Len(ds) - 1)) + DigitValue(ds[Len(ds)])

\* a match of /resets in (\d+) seconds/i that starts at position k and whose
\* digits end at position e
MatchAt(text, k, e) ==
    /\ k + 1 <= e
    /\ e + 1 <= Len(text)
    /\ ToLower(text[k]) = T_RESETS
    /\ \A d \in (k + 1)..e : text[d] \in Digits
    /\ ToLower(text[e + 1]) = T_SECONDS

\* /resets in (\d+) seconds/i.exec(message): the captured digits of the
\* leftmost match, or Null
RegexExec(text) ==
    LET starts == {k \in 1..Len(text) : \E e \in 1..Len(text) : MatchAt(text, k, e)}
    IN  IF starts = {} THEN Null
        ELSE LET k == CHOOSE s \in starts : \A s2 \in starts : s <= s2
                 e == CHOOSE x \in 1..Len(text) : MatchAt(text, k, x)
             IN  Some(SubSeq(text, k + 1, e))

\* err?.data?.error || err?.error || err?.message || ''
ErrorMessage(err) ==
    IF err.dataError # << >> THEN err.dataError
    ELSE IF err.error # << >> THEN err.error
    ELSE err.message

getRelayerBackoffMs_NoMargin(err) ==
    IF err.status # 429 THEN Null
    ELSE LET match == RegexExec(ErrorMessage(err))
         IN  IF match # Null THEN Some(NumberOf(match[1]) * 1000)
             ELSE Some(60000)

getRelayerBackoffMs_AnyStatus(err) ==
    LET match == RegexExec(ErrorMessage(err))
    IN  IF match # Null THEN Some((NumberOf(match[1]) + 5) * 1000)
        ELSE Some(60000)

getRelayerBackoffMs(err) ==
    IF err.status # 429 THEN Null
    ELSE LET match == RegexExec(ErrorMessage(err))
         IN  IF match # Null THEN Some((NumberOf(match[1]) + 5) * 1000)
             ELSE Some(60000)

isQuotaExhausted_Never(err) == FALSE

\* errData?.data?.error?.includes('0 units remaining')
isQuotaExhausted(err) == Includes(err.dataError, <<"0", T_UNITS>>)

(***************************************************************************)
(* Quota tracker.  q is the quotaTracker object, t the value of Date.now(),*)
(* limit the value of CONFIG.HOURLY_QUOTA_LIMIT.                           *)
(***************************************************************************)
QuotaAfterCheck_KeepWindow(q, t) ==
    IF t - q.hourStartTime >= hourMs
    THEN [callsThisHour |-> 0, hourStartTime |-> q.hourStartTime]
    ELSE q

QuotaAfterCheck_AlwaysReset(q, t) == [callsThisHour |-> 0, hourStartTime |-> t]

QuotaAfterCheck(q, t) ==
    IF t - q.hourStartTime >= hourMs
    THEN [callsThisHour |-> 0, hourStartTime |-> t]
    ELSE q

checkAndUpdateQuota_OffByOne(q, t, limit) ==
    LET q1 == QuotaAfterCheck(q, t)
    IN  [quota |-> q1, ok |-> ~(q1.callsThisHour > limit)]

checkAndUpdateQuota_NeverRefuses(q, t, limit) ==
    [quota |-> QuotaAfterCheck(q, t), ok |-> TRUE]

checkAndUpdateQuota(q, t, limit) ==
    LET q1 == QuotaAfterCheck(q, t)
    IN  [quota |-> q1, ok |-> ~(q1.callsThisHour >= limit)]

incrementQuota(q) == [q EXCEPT !.callsThisHour = @ + 1]


(***************************************************************************)
(* Candidate scanner.                                                      *)
(***************************************************************************)
minBalanceOf_Max(b) == IF b.yesBalance < b.noBalance THEN b.noBalance ELSE b.yesBalance

\* balances.yesBalance < balances.noBalance ? yesBalance : noBalance
minBalanceOf(b) == IF b.yesBalance < b.noBalance THEN b.yesBalance ELSE b.noBalance

\* the two early continues of the scan loop
scanClass(minBalance, minMerge) ==
    IF minBalance = 0 THEN "skippedZero"
    ELSE IF minBalance < minMerge THEN "skippedBelowMin"
    ELSE "eligible"

scanOutcome_ErrorIsEligible(b, minMerge) ==
    IF b.status = "failed" THEN "eligible"
    ELSE scanClass(minBalanceOf(b), minMerge)

\* the try of the scan loop for one reply of getTokenBalances: a rejected
\* read goes to the catch, which only logs
scanOutcome(b, minMerge) ==
    IF b.status = "failed" THEN "readError"
    ELSE scanClass(minBalanceOf(b), minMerge)

(***************************************************************************)
(* What the collaborators can answer.                                      *)
(***************************************************************************)
NoText == << >>
NoError == [status |-> 0, dataError |-> NoText, error |-> NoText, message |-> NoText]

\* HTTP 429, "quota exceeded: resets in 12 seconds"
ErrRateLimited ==
    [status |-> 429, dataError |-> <<T_TEXT, T_RESETS, "1", "2", T_SECONDS>>,
     error |-> NoText, message |-> NoText]
\* HTTP 429, "quota exceeded: 0 units remaining, resets in 12 seconds"
ErrExhausted ==
    [status |-> 429,
     dataError |-> <<T_TEXT, "0", T_UNITS, T_RESETS, "1", "2", T_SECONDS>>,
     error |-> NoText, message |-> NoText]
\* HTTP 500 with a message only
ErrServer ==
    [status |-> 500, dataError |-> NoText, error |-> NoText, message |-> <<T_TEXT>>]
\* new Error('Relayer returned no result.'): no status, a message only
ErrNoResult ==
    [status |-> 0, dataError |-> NoText, error |-> NoText, message |-> <<T_TEXT>>]

RelayErrors == {ErrRateLimited, ErrExhausted, ErrServer}

\* what response.wait() resolves to when it is not null: result.state may be
\* present or absent
RelayResults == {"STATE_CONFIRMED", ""}

NoBalances == [status |-> "none", yesBalance |-> 0, noBalance |-> 0]
PendingBalances == [status |-> "pending", yesBalance |-> 0, noBalance |-> 0]
FailedBalances == [status |-> "failed", yesBalance |-> 0, noBalance |-> 0]
BalanceReplies ==
    {[status |-> "ok", yesBalance |-> y, noBalance |-> n] :
        y \in 0..MaxBalance, n \in 0..MaxBalance} \cup {FailedBalances}

Configs ==
    [BATCH_SIZE : 1..MaxBatchSize,
     HOURLY_QUOTA_LIMIT : {QuotaLimit},
     MIN_MERGE_AMOUNT : {MIN_MERGE_AMOUNT}]

\* how the record of an attempt names an error: by what the relay said
ReportsZeroUnits(err) == Includes(err.dataError, <<"0", T_UNITS>>)
AttemptKind(err) ==
    IF err.status = 429 /\ ReportsZeroUnits(err) THEN "exhausted"
    ELSE IF err.status = 429 THEN "rateLimited"
    ELSE IF err = ErrNoResult THEN "noResult"
    ELSE "error"

(***************************************************************************)
(* State.                                                                  *)
(***************************************************************************)
VARIABLES
    CONFIG,            \* the CONFIG object: fixed at start-up
    now,               \* Date.now()
    quotaTracker,      \* [callsThisHour, hourStartTime]
    pc,                \* the await main() is suspended at
    isShuttingDown,    \* the flag of main()
    shutdownPc,        \* where shutdown() is: "idle", "closing", "done", "failed"
    redisClient,       \* TRUE iff the module's redisClient is not null
    proc,              \* "running", "exit0", "exit1"
    signals,           \* SIGINT / SIGTERM deliveries so far
    markets,           \* the descriptors fetched in this cycle
    scanIdx,           \* index in markets of the descriptor being read
    balances,          \* the pending or received reply of getTokenBalances
    candidates,        \* sequence of [market, minBalance]
    skippedZero,
    skippedBelowMin,
    mergedCount,
    errorCount,
    i,                 \* the batch loop's index into candidates
    batch,             \* candidates.slice(i, i + BATCH_SIZE)
    attempts,
    execCalls,         \* relayer.execute calls made for the current batch
    attemptLog,        \* outcome of each finished attempt of the current batch
    batches,           \* the batches formed in this cycle, in order
    cycleEnd,          \* how the cycle ended: "none", "quotaRefused",
                       \* "noCandidates", "summary", "error"
    quotaStop,         \* the batch loop was left by the quota break
    error,             \* argument of a stand-alone getRelayerBackoffMs call
    backoffMs,         \* its result
    fnPc               \* "idle", "input", "output"

scanVars == <<markets, scanIdx, balances, candidates, skippedZero, skippedBelowMin>>
batchVars == <<mergedCount, errorCount, i, batch, attempts, execCalls, attemptLog,
               batches, cycleEnd, quotaStop>>
shutdownVars == <<isShuttingDown, shutdownPc, redisClient, proc, signals>>
fnVars == <<error, backoffMs, fnPc>>
vars == <<CONFIG, now, quotaTracker, pc, scanVars, batchVars, shutdownVars, fnVars>>

Running == proc = "running"

(***************************************************************************)
(* Init: main() has run up to its first await.  The quota tracker was      *)
(* created with callsThisHour = 0 at the current time, so the first        *)
(* checkAndUpdateQuota() passed (the limit is positive) and fetchMarkets   *)
(* is pending; it created the Redis client.                                *)
(***************************************************************************)
InitWorker ==
    /\ now = 0
    /\ quotaTracker = [callsThisHour |-> 0, hourStartTime |-> 0]
    /\ isShuttingDown = FALSE
    /\ shutdownPc = "idle"
    /\ redisClient = TRUE
    /\ proc = "running"
    /\ signals = 0
    /\ markets = << >>
    /\ scanIdx = 0
    /\ balances = NoBalances
    /\ candidates = << >>
    /\ skippedZero = 0
    /\ skippedBelowMin = 0
    /\ mergedCount = 0
    /\ errorCount = 0
    /\ i = 0
    /\ batch = << >>
    /\ attempts = 0
    /\ execCalls = 0
    /\ attemptLog = << >>
    /\ batches = << >>
    /\ cycleEnd = "none"
    /\ quotaStop = FALSE

Init ==
    /\ CONFIG \in Configs
    /\ InitWorker
    /\ pc = "fetch"
    /\ error = NoError
    /\ backoffMs = Null
    /\ fnPc = "idle"

(***************************************************************************)
(* Environment: the clock.                                                 *)
(***************************************************************************)
Tick ==
    /\ Running
    /\ now < MaxTicks * TickMs
    /\ now' = now + TickMs
    /\ UNCHANGED <<CONFIG, quotaTracker, pc, scanVars, batchVars, shutdownVars, fnVars>>

(***************************************************************************)
(* The batch loop of Phase 2.                                              *)
(***************************************************************************)
Slice_TooWide(cands, from, size) ==
    SubSeq(cands, from + 1, Min(from + size + 1, Len(cands)))

\* candidates.slice(from, from + size), from counted from 0
Slice(cands, from, size) == SubSeq(cands, from + 1, Min(from + size, Len(cands)))

\* The head of the for loop at index i0 < cands.length: the quota re-check,
\* then either the break (and the cycle summary, and the inter-cycle sleep)
\* or the slice of the batch, the encoding of its transactions and the first
\* relayer.execute call.  encodeFunctionData throws on a descriptor whose
\* conditionId is not a 32-byte hex string; that error leaves the cycle body
\* for its catch and the inter-cycle sleep.
StartBatch(cands, i0, formed) ==
    LET r == checkAndUpdateQuota(quotaTracker, now, CONFIG.HOURLY_QUOTA_LIMIT)
    IN  /\ quotaTracker' = r.quota
        /\ i' = i0
        /\ attemptLog' = << >>
        /\ IF r.ok
           THEN /\ batch' = Slice(cands, i0, CONFIG.BATCH_SIZE)
                /\ attempts' = 0
                /\ quotaStop' = FALSE
                /\ \E encoded \in BOOLEAN :
                      IF encoded
                      THEN /\ batches' = Append(formed, batch')
                           /\ execCalls' = 1
                           /\ cycleEnd' = "none"
                           /\ pc' = "execute"
                      ELSE /\ batches' = formed
                           /\ execCalls' = 0
                           /\ cycleEnd' = "error"
                           /\ pc' = "sleepCycle"
           ELSE /\ batch' = << >>
                /\ batches' = formed
                /\ attempts' = 0
                /\ execCalls' = 0
                /\ cycleEnd' = "summary"
                /\ quotaStop' = TRUE
                /\ pc' = "sleepCycle"

AfterBatch_StopAfterBatch ==
    /\ pc' = "sleepCycle"
    /\ i' = i + CONFIG.BATCH_SIZE
    /\ cycleEnd' = "summary"

\* After the retry loop of a batch: the inter-batch delay when more candidates
\* remain, else the end of the for loop, the cycle summary and the
\* inter-cycle sleep.
AfterBatch ==
    IF i + CONFIG.BATCH_SIZE < Len(candidates)
    THEN /\ pc' = "batchDelay"
         /\ UNCHANGED <<i, cycleEnd>>
    ELSE /\ pc' = "sleepCycle"
         /\ i' = i + CONFIG.BATCH_SIZE
         /\ cycleEnd' = "summary"

\* The catch block of the retry loop for the error err.
Catch(err) ==
    LET backoff == getRelayerBackoffMs(err)
    IN  /\ attempts' = attempts + 1
        /\ attemptLog' = Append(attemptLog, AttemptKind(err))
        /\ UNCHANGED <<mergedCount, batch, execCalls, batches, quotaStop>>
        /\ IF backoff # Null /\ isQuotaExhausted(err)
           THEN /\ quotaTracker' =
                      [quotaTracker EXCEPT !.callsThisHour = CONFIG.HOURLY_QUOTA_LIMIT]
                /\ errorCount' = errorCount + Len(batch)
                /\ AfterBatch
           ELSE IF backoff # Null /\ attempts + 1 < maxAttempts
           THEN /\ pc' = "backoff"
                /\ UNCHANGED <<quotaTracker, errorCount, i, cycleEnd>>
           ELSE /\ errorCount' = errorCount + Len(batch)
                /\ UNCHANGED quotaTracker
                /\ AfterBatch

\* relayer.execute resolves to a handle: incrementQuota(), then response.wait()
ExecuteReturns ==
    /\ Running
    /\ pc = "execute"
    /\ quotaTracker' = incrementQuota(quotaTracker)
    /\ pc' = "wait"
    /\ UNCHANGED <<CONFIG, now, scanVars, batchVars, shutdownVars, fnVars>>

\* relayer.execute rejects
ExecuteRaises ==
    /\ Running
    /\ pc = "execute"
    /\ \E err \in RelayErrors : Catch(err)
    /\ UNCHANGED <<CONFIG, now, scanVars, shutdownVars, fnVars>>

WaitReturns_CountsBoth ==
    /\ Running
    /\ pc = "wait"
    /\ \E state \in RelayResults :
          attemptLog' = Append(attemptLog, IF state = "" THEN "okNoState" ELSE "ok")
    /\ mergedCount' = mergedCount + Len(batch)
    /\ errorCount' = errorCount + Len(batch)
    /\ AfterBatch
    /\ UNCHANGED <<batch, attempts, execCalls, batches, quotaStop>>
    /\ UNCHANGED <<CONFIG, now, quotaTracker, scanVars, shutdownVars, fnVars>>

\* response.wait() resolves to a result
WaitReturns ==
    /\ Running
    /\ pc = "wait"
    /\ \E state \in RelayResults :
          attemptLog' = Append(attemptLog, IF state = "" THEN "okNoState" ELSE "ok")
    /\ mergedCount' = mergedCount + Len(batch)
    /\ AfterBatch
    /\ UNCHANGED <<errorCount, batch, attempts, execCalls, batches, quotaStop>>
    /\ UNCHANGED <<CONFIG, now, quotaTracker, scanVars, shutdownVars, fnVars>>

\* response.wait() resolves to null or undefined: the try block throws
WaitReturnsNull ==
    /\ Running
    /\ pc = "wait"
    /\ Catch(ErrNoResult)
    /\ UNCHANGED <<CONFIG, now, scanVars, shutdownVars, fnVars>>

\* response.wait() rejects
WaitRaises ==
    /\ Running
    /\ pc = "wait"
    /\ \E err \in RelayErrors : Catch(err)
    /\ UNCHANGED <<CONFIG, now, scanVars, shutdownVars, fnVars>>

\* the backoff sleep ends: continue, attempts < maxAttempts, relayer.execute
BackoffEnds ==
    /\ Running
    /\ pc = "backoff"
    /\ attempts < maxAttempts
    /\ execCalls' = execCalls + 1
    /\ pc' = "execute"
    /\ UNCHANGED <<mergedCount, errorCount, i, batch, attempts, attemptLog, batches,
                   cycleEnd, quotaStop>>
    /\ UNCHANGED <<CONFIG, now, quotaTracker, scanVars, shutdownVars, fnVars>>

\* the inter-batch delay ends: i += BATCH_SIZE and the next loop iteration
DelayEnds ==
    /\ Running
    /\ pc = "batchDelay"
    /\ StartBatch(candidates, i + CONFIG.BATCH_SIZE, batches)
    /\ UNCHANGED <<mergedCount, errorCount>>
    /\ UNCHANGED <<CONFIG, now, scanVars, shutdownVars, fnVars>>

(***************************************************************************)
(* The cycle loop and Phase 1.                                             *)
(***************************************************************************)
\* An inter-cycle sleep ends: the while condition, then the quota check of the
\* new cycle and either the quota sleep or the call of fetchMarkets (which
\* creates the Redis client when there is none).
SleepEnds ==
    /\ Running
    /\ pc \in {"sleepCycle", "sleepQuota", "sleepNoCand"}
    /\ IF isShuttingDown
       THEN /\ pc' = "returned"
            /\ UNCHANGED <<quotaTracker, scanVars, batchVars, shutdownVars>>
       ELSE LET r == checkAndUpdateQuota(quotaTracker, now, CONFIG.HOURLY_QUOTA_LIMIT)
            IN  /\ quotaTracker' = r.quota
                /\ markets' = << >>
                /\ scanIdx' = 0
                /\ balances' = NoBalances
                /\ candidates' = << >>
                /\ skippedZero' = 0
                /\ skippedBelowMin' = 0
                /\ mergedCount' = 0
                /\ errorCount' = 0
                /\ i' = 0
                /\ batch' = << >>
                /\ attempts' = 0
                /\ execCalls' = 0
                /\ attemptLog' = << >>
                /\ batches' = << >>
                /\ quotaStop' = FALSE
                /\ IF r.ok
                   THEN /\ pc' = "fetch"
                        /\ cycleEnd' = "none"
                        /\ redisClient' = TRUE
                   ELSE /\ pc' = "sleepQuota"
                        /\ cycleEnd' = "quotaRefused"
                        /\ UNCHANGED redisClient
                /\ UNCHANGED <<isShuttingDown, shutdownPc, proc, signals>>
    /\ UNCHANGED <<CONFIG, now, fnVars>>

\* fetchMarkets resolves to n descriptors; with none, the scan is empty and
\* the cycle sleeps
FetchReturns ==
    /\ Running
    /\ pc = "fetch"
    /\ \E n \in 0..MaxMarkets :
          /\ markets' = [k \in 1..n |-> k]
          /\ IF n = 0
             THEN /\ pc' = "sleepNoCand"
                  /\ cycleEnd' = "noCandidates"
                  /\ UNCHANGED <<scanIdx, balances>>
             ELSE /\ pc' = "scan"
                  /\ scanIdx' = 1
                  /\ balances' = PendingBalances
                  /\ UNCHANGED cycleEnd
    /\ UNCHANGED <<candidates, skippedZero, skippedBelowMin>>
    /\ UNCHANGED <<mergedCount, errorCount, i, batch, attempts, execCalls, attemptLog,
                   batches, quotaStop>>
    /\ UNCHANGED <<CONFIG, now, quotaTracker, shutdownVars, fnVars>>

FetchRaises_NoSleep ==
    /\ Running
    /\ pc = "fetch"
    /\ pc' = "fetch"
    /\ cycleEnd' = "error"
    /\ UNCHANGED <<mergedCount, errorCount, i, batch, attempts, execCalls, attemptLog,
                   batches, quotaStop>>
    /\ UNCHANGED <<CONFIG, now, quotaTracker, scanVars, shutdownVars, fnVars>>

FetchRaises_Crash ==
    /\ Running
    /\ pc = "fetch"
    /\ proc' = "exit1"
    /\ cycleEnd' = "error"
    /\ UNCHANGED <<mergedCount, errorCount, i, batch, attempts, execCalls, attemptLog,
                   batches, quotaStop>>
    /\ UNCHANGED <<CONFIG, now, quotaTracker, pc, scanVars, fnVars>>
    /\ UNCHANGED <<isShuttingDown, shutdownPc, redisClient, signals>>

\* fetchMarkets rejects: the catch of the cycle body, then the inter-cycle sleep
FetchRaises ==
    /\ Running
    /\ pc = "fetch"
    /\ pc' = "sleepCycle"
    /\ cycleEnd' = "error"
    /\ UNCHANGED <<mergedCount, errorCount, i, batch, attempts, execCalls, attemptLog,
                   batches, quotaStop>>
    /\ UNCHANGED <<CONFIG, now, quotaTracker, scanVars, shutdownVars, fnVars>>

\* the chain answers the pending getTokenBalances call
BalanceReply ==
    /\ Running
    /\ pc = "scan"
    /\ balances = PendingBalances
    /\ balances' \in BalanceReplies
    /\ UNCHANGED <<markets, scanIdx, candidates, skippedZero, skippedBelowMin>>
    /\ UNCHANGED <<CONFIG, now, quotaTracker, pc, batchVars, shutdownVars, fnVars>>

\* The body of the scan loop for markets[scanIdx] once its balances (or the
\* read error) arrived; after the last descriptor, the end of Phase 1 and the
\* first iteration of the batch loop.
ScanMarket ==
    /\ Running
    /\ pc = "scan"
    /\ balances.status \in {"ok", "failed"}
    /\ LET minBalance == minBalanceOf(balances)
           class == scanOutcome(balances, CONFIG.MIN_MERGE_AMOUNT)
           cands1 == IF class = "eligible"
                     THEN Append(candidates,
                                 [market |-> markets[scanIdx], minBalance |-> minBalance])
                     ELSE candidates
       IN  /\ candidates' = cands1
           /\ skippedZero' = IF class = "skippedZero" THEN skippedZero + 1 ELSE skippedZero
           /\ skippedBelowMin' =
                 IF class = "skippedBelowMin" THEN skippedBelowMin + 1 ELSE skippedBelowMin
           /\ UNCHANGED markets
           /\ IF scanIdx < Len(markets)
              THEN /\ scanIdx' = scanIdx + 1
                   /\ balances' = PendingBalances
                   /\ UNCHANGED <<pc, quotaTracker, batchVars>>
              ELSE /\ balances' = NoBalances
                   /\ UNCHANGED scanIdx
                   /\ IF cands1 = << >>
                      THEN /\ pc' = "sleepNoCand"
                           /\ cycleEnd' = "noCandidates"
                           /\ UNCHANGED <<quotaTracker, mergedCount, errorCount, i, batch,
                                          attempts, execCalls, attemptLog, batches,
                                          quotaStop>>
                      ELSE /\ mergedCount' = 0
                           /\ errorCount' = 0
                           /\ StartBatch(cands1, 0, << >>)
    /\ UNCHANGED <<CONFIG, now, shutdownVars, fnVars>>

(***************************************************************************)
(* Shutdown.                                                               *)
(***************************************************************************)
\* SIGINT or SIGTERM is delivered: shutdown(signal) up to its await.  With no
\* Redis client closeRedis() has nothing to await and process.exit(0) follows.
Signal ==
    /\ Running
    /\ signals < MaxSignals
    /\ signals' = signals + 1
    /\ IF isShuttingDown
       THEN UNCHANGED <<isShuttingDown, shutdownPc, redisClient, proc>>
       ELSE /\ isShuttingDown' = TRUE
            /\ IF redisClient
               THEN /\ shutdownPc' = "closing"
                    /\ UNCHANGED <<redisClient, proc>>
               ELSE /\ shutdownPc' = "done"
                    /\ proc' = "exit0"
                    /\ UNCHANGED redisClient
    /\ UNCHANGED <<CONFIG, now, quotaTracker, pc, scanVars, batchVars, fnVars>>

\* redisClient.quit() resolves: redisClient = null, then process.exit(0)
QuitResolves ==
    /\ Running
    /\ shutdownPc = "closing"
    /\ redisClient' = FALSE
    /\ shutdownPc' = "done"
    /\ proc' = "exit0"
    /\ UNCHANGED <<isShuttingDown, signals>>
    /\ UNCHANGED <<CONFIG, now, quotaTracker, pc, scanVars, batchVars, fnVars>>

\* redisClient.quit() rejects: shutdown() rejects and nothing handles it; the
\* runtime either ends the process with status 1 or only warns
QuitRejects ==
    /\ Running
    /\ shutdownPc = "closing"
    /\ shutdownPc' = "failed"
    /\ proc' \in {"exit1", "running"}
    /\ UNCHANGED <<isShuttingDown, redisClient, signals>>
    /\ UNCHANGED <<CONFIG, now, quotaTracker, pc, scanVars, batchVars, fnVars>>

Next ==
    \/ Tick
    \/ SleepEnds
    \/ FetchReturns
    \/ FetchRaises
    \/ BalanceReply
    \/ ScanMarket
    \/ ExecuteReturns
    \/ ExecuteRaises
    \/ WaitReturns
    \/ WaitReturnsNull
    \/ WaitRaises
    \/ BackoffEnds
    \/ DelayEnds

\* The worker on its own.  The signal handlers write nothing but
\* isShuttingDown and end the process; SpecShutdown adds them.
Spec == Init /\ [][Next]_vars

NextShutdown ==
    \/ Next
    \/ Signal
    \/ QuitResolves
    \/ QuitRejects

SpecShutdown == Init /\ [][NextShutdown]_vars

(***************************************************************************)
(* getRelayerBackoffMs on its own: Init draws the error object, the one    *)
(* action applies the function.                                            *)
(***************************************************************************)
BackoffTokens == Digits \cup {T_RESETS, T_RESETS_UC, T_SECONDS, T_TEXT}

TextsOfLen(n) == [1..n -> BackoffTokens]
Texts == UNION {TextsOfLen(n) : n \in 0..MaxMsgLen}

ErrorInputs ==
    [status : {0, 429, 500},
     dataError : {NoText, <<T_TEXT>>, <<T_RESETS, "2", T_SECONDS>>},
     error : {NoText, <<T_RESETS, "1", T_SECONDS>>},
     message : Texts]

InitBackoff ==
    /\ CONFIG = [BATCH_SIZE |-> 1, HOURLY_QUOTA_LIMIT |-> QuotaLimit,
                 MIN_MERGE_AMOUNT |-> MIN_MERGE_AMOUNT]
    /\ InitWorker
    /\ pc = "fetch"
    /\ error \in ErrorInputs
    /\ backoffMs = Null
    /\ fnPc = "input"

ApplyBackoff ==
    /\ fnPc = "input"
    /\ backoffMs' = getRelayerBackoffMs(error)
    /\ fnPc' = "output"
    /\ UNCHANGED <<CONFIG, now, quotaTracker, pc, scanVars, batchVars, shutdownVars, error>>

NextBackoff == ApplyBackoff

SpecBackoff == InitBackoff /\ [][NextBackoff]_vars

(***************************************************************************)
(* Vocabulary of the properties.                                           *)
(***************************************************************************)
Limit == CONFIG.HOURLY_QUOTA_LIMIT
Calls == quotaTracker.callsThisHour
WindowElapsed == now - quotaTracker.hourStartTime >= hourMs

\* the step runs checkAndUpdateQuota(): at the start of a cycle, or at the
\* head of the batch loop (first batch after the scan, later ones after the
\* inter-batch delay)
CycleCheckStep == SleepEnds /\ ~isShuttingDown
BatchCheckStep ==
    \/ DelayEnds
    \/ ScanMarket /\ scanIdx = Len(markets) /\ candidates' # << >>
CheckStep == CycleCheckStep \/ BatchCheckStep
\* ... and it returned false: the quota sleep, or the break of the batch loop
CheckRefused ==
    \/ pc' = "sleepQuota" /\ cycleEnd' = "quotaRefused"
    \/ pc' = "sleepCycle" /\ quotaStop'
\* ... and it returned true: the cycle fetches, or the batch is sliced and
\* encoded
CheckPassed ==
    \/ pc' = "fetch"
    \/ pc' = "execute"
    \/ pc' = "sleepCycle" /\ cycleEnd' = "error"

\* the step ends the retry loop of the current batch
BatchEndStep == pc \in {"execute", "wait"} /\ pc' \in {"batchDelay", "sleepCycle"}

\* the last finished attempt of the current batch got the relay's
\* "0 units remaining" with HTTP 429
ExhaustedReported ==
    attemptLog # << >> /\ attemptLog[Len(attemptLog)] = "exhausted"

RECURSIVE Concat(_)
Concat(ss) == IF ss = << >> THEN << >> ELSE Head(ss) \o Concat(Tail(ss))

CeilDiv(n, d) == (n + d - 1) \div d

(***************************************************************************)
(* C1: in every reachable state quotaTracker.callsThisHour is at most      *)
(* CONFIG.HOURLY_QUOTA_LIMIT.                                              *)
(***************************************************************************)
C1_CallsNeverExceedLimit == Calls <= Limit

(***************************************************************************)
(* C2: once the relay has reported "0 units remaining" for a batch, no     *)
(* relayer.execute call is made in the rest of the cycle: no step taken    *)
(* after such a report starts a submission.                                *)
(***************************************************************************)
C2_NoExecuteAfterExhausted == [][ExhaustedReported => pc' # "execute"]_vars

(***************************************************************************)
(* C3: a batch whose attempts all failed with a rate-limit error that does *)
(* not report quota exhaustion ends only after exactly 3 relayer.execute   *)
(* calls, with errorCount increased by the batch size and mergedCount      *)
(* unchanged.                                                              *)
(***************************************************************************)
C3_RetryBound ==
    [][(BatchEndStep /\ \A k \in 1..Len(attemptLog') : attemptLog'[k] = "rateLimited")
         => /\ execCalls' = 3
            /\ Len(attemptLog') = 3
            /\ errorCount' = errorCount + Len(batch)
            /\ mergedCount' = mergedCount]_vars

C3_Witness ==
    /\ pc \in {"batchDelay", "sleepCycle"}
    /\ attemptLog = <<"rateLimited", "rateLimited", "rateLimited">>
    /\ execCalls = 3
    /\ errorCount = Len(batch)
    /\ Len(batch) = 2

(***************************************************************************)
(* C4: every relayer.execute call, whether it returns a handle or raises,  *)
(* increases callsThisHour by exactly 1, and a backoff sleep leaves the    *)
(* counter alone.                                                          *)
(***************************************************************************)
C4_EveryAttemptCounts ==
    [][/\ (pc = "execute" /\ pc' # "execute") => Calls' = Calls + 1
       /\ (pc = "backoff" /\ pc' # "backoff") => Calls' = Calls]_vars

(***************************************************************************)
(* C5: checkAndUpdateQuota() called with callsThisHour >= the limit and    *)
(* less than one hour elapsed returns false and leaves the tracker alone.  *)
(***************************************************************************)
C5_NoPassWhenExhausted ==
    [][(CheckStep /\ Calls >= Limit /\ ~WindowElapsed)
         => (CheckRefused /\ ~CheckPassed /\ quotaTracker' = quotaTracker)]_vars

C5_Witness ==
    /\ pc = "sleepQuota"
    /\ cycleEnd = "quotaRefused"
    /\ Calls >= Limit
    /\ ~WindowElapsed

(***************************************************************************)
(* C6: checkAndUpdateQuota() called with at least one hour elapsed leaves  *)
(* callsThisHour = 0 and hourStartTime = now, whatever the counter was;    *)
(* the next incrementQuota() makes the counter 1.                          *)
(***************************************************************************)
C6_ResetAfterHour ==
    [][/\ (CheckStep /\ WindowElapsed)
            => /\ quotaTracker'.callsThisHour = 0
               /\ quotaTracker'.hourStartTime = now
       /\ (pc = "execute" /\ pc' = "wait" /\ Calls = 0) => Calls' = 1]_vars

C6_Witness ==
    /\ quotaTracker.hourStartTime = now
    /\ now >= hourMs
    /\ Calls = 1
    /\ pc = "wait"
    /\ Len(batches) = 2

(***************************************************************************)
(* C7: for a descriptor whose balances were read, the scan takes           *)
(* amount = min(yesBalance, noBalance) and does exactly one of: count it   *)
(* as skippedZero (iff amount = 0), count it as skippedBelowMin (iff       *)
(* 0 < amount < MIN_MERGE_AMOUNT), push it as a candidate with that amount *)
(* (iff amount > 0 and amount >= MIN_MERGE_AMOUNT).                        *)
(***************************************************************************)
C7_ScanClassification ==
    [][(ScanMarket /\ balances.status = "ok")
         => LET amount == Min(balances.yesBalance, balances.noBalance)
                minimum == CONFIG.MIN_MERGE_AMOUNT
                zero == skippedZero' = skippedZero + 1
                below == skippedBelowMin' = skippedBelowMin + 1
                eligible ==
                    candidates' = Append(candidates, [market |-> markets[scanIdx],
                                                      minBalance |-> amount])
            IN  /\ zero <=> amount = 0
                /\ below <=> (0 < amount /\ amount < minimum)
                /\ eligible <=> (amount > 0 /\ amount >= minimum)
                /\ ~zero => skippedZero' = skippedZero
                /\ ~below => skippedBelowMin' = skippedBelowMin
                /\ ~eligible => candidates' = candidates
                /\ ~(zero /\ below) /\ ~(zero /\ eligible) /\ ~(below /\ eligible)
                /\ zero \/ below \/ eligible]_vars

C7_Witness ==
    /\ Len(markets) = 3
    /\ pc = "execute"
    /\ skippedZero = 1
    /\ skippedBelowMin = 1
    /\ candidates = <<[market |-> 3, minBalance |-> 2]>>

(***************************************************************************)
(* C8: the batches formed in a cycle are non-empty, of size at most        *)
(* BATCH_SIZE, and their concatenation is a prefix of the candidate list;  *)
(* when the batch loop ends without a quota stop there are exactly         *)
(* ceil(n / BATCH_SIZE) of them and the concatenation is the whole list.   *)
(***************************************************************************)
C8_Batching ==
    LET all == Concat(batches)
    IN  /\ \A k \in 1..Len(batches) :
              batches[k] # << >> /\ Len(batches[k]) <= CONFIG.BATCH_SIZE
        /\ Len(all) <= Len(candidates)
        /\ all = SubSeq(candidates, 1, Len(all))
        /\ (cycleEnd = "summary" /\ ~quotaStop)
              => /\ Len(batches) = CeilDiv(Len(candidates), CONFIG.BATCH_SIZE)
                 /\ all = candidates

C8_Witness ==
    /\ cycleEnd = "summary"
    /\ ~quotaStop
    /\ CONFIG.BATCH_SIZE = 2
    /\ Len(candidates) = 3
    /\ Len(batches) = 2
    /\ Len(batches[1]) = 2
    /\ Len(batches[2]) = 1

(***************************************************************************)
(* C9: getRelayerBackoffMs returns null when the status is not 429; for a  *)
(* 429 error whose message (the first non-empty of data.error, error,      *)
(* message) contains "resets in N seconds" it returns (N + 5) * 1000, so   *)
(* 17000 for N = 12; for a 429 error whose message has no such hint it     *)
(* returns 60000.                                                          *)
(***************************************************************************)
EffectiveText(err) ==
    CASE err.dataError # NoText -> err.dataError
      [] err.dataError = NoText /\ err.error # NoText -> err.error
      [] OTHER -> err.message

\* the values N of the hints "resets in N seconds" a text contains
HintsIn(text) ==
    {NumberOf(SubSeq(text, k + 1, e)) : <<k, e>> \in
        {p \in (1..Len(text)) \X (1..Len(text)) :
            /\ p[1] < p[2]
            /\ p[2] < Len(text)
            /\ text[p[1]] \in {T_RESETS, T_RESETS_UC}
            /\ \A d \in (p[1] + 1)..p[2] : text[d] \in Digits
            /\ text[p[2] + 1] = T_SECONDS}}

C9_Backoff ==
    fnPc = "output" =>
        LET hints == HintsIn(EffectiveText(error))
        IN  /\ error.status # 429 => backoffMs = Null
            /\ (error.status = 429 /\ hints # {})
                  => \E N \in hints : backoffMs = Some((N + 5) * 1000)
            /\ (error.status = 429 /\ hints = {}) => backoffMs = Some(60000)
            /\ (error.status = 429 /\ hints = {12}) => backoffMs = Some(17000)

C9_Witness ==
    /\ fnPc = "output"
    /\ error = [status |-> 429, dataError |-> NoText, error |-> NoText,
                message |-> <<T_RESETS, "1", "2", T_SECONDS>>]
    /\ backoffMs = Some(17000)

(***************************************************************************)
(* C10: at the summary of a cycle every fetched descriptor is counted in   *)
(* exactly one of merged, errored, skipped-zero, skipped-below-minimum     *)
(* (stated for the cycles whose batch loop ran to its end).                *)
(***************************************************************************)
C10_EveryDescriptorCounted ==
    (cycleEnd = "summary" /\ ~quotaStop)
        => Len(markets) = mergedCount + errorCount + skippedZero + skippedBelowMin

(***************************************************************************)
(* C11: an error raised by the cycle body outside the per-item handlers    *)
(* (fetchMarkets rejects, the encoding of a batch throws) does not end the *)
(* process: the step that raises it leaves the worker in the inter-cycle   *)
(* sleep, and the step that ends that sleep starts another cycle (its      *)
(* quota check, then the fetch or the quota sleep) unless the shutdown     *)
(* flag is set, in which case main() returns.                              *)
(***************************************************************************)
CycleErrorStep == cycleEnd # "error" /\ cycleEnd' = "error"

C11_TopLevelErrorCaught ==
    [][/\ CycleErrorStep => (proc' = "running" /\ pc' = "sleepCycle")
       /\ (pc = "sleepCycle" /\ cycleEnd = "error" /\ pc' # pc)
            => IF isShuttingDown
               THEN pc' = "returned"
               ELSE /\ proc' = "running"
                    /\ markets' = << >>
                    /\ \/ pc' = "fetch" /\ cycleEnd' = "none"
                       \/ pc' = "sleepQuota" /\ cycleEnd' = "quotaRefused"]_vars

C11_Witness ==
    /\ pc = "sleepCycle"
    /\ cycleEnd = "error"
    /\ proc = "running"
    /\ markets = << >>
    /\ now > 0

(***************************************************************************)
(* C12: a balance read that fails for one descriptor does not abort the    *)
(* scan: the descriptor yields no candidate and changes no counter, the    *)
(* scan goes on to read the next descriptor of the list (or ends normally  *)
(* after the last one, never through the catch of the cycle body), every   *)
(* descriptor is visited in turn, and the candidates are in the order of   *)
(* the descriptors they were made from.                                    *)
(***************************************************************************)
PositionOf(m) == CHOOSE k \in 1..Len(markets) : markets[k] = m

InInputOrder(cands) ==
    \A a, b \in 1..Len(cands) :
        a < b => PositionOf(cands[a].market) < PositionOf(cands[b].market)

C12_ReadFailureSkipsOne ==
    [][ScanMarket
         => /\ balances.status = "failed"
                 => /\ candidates' = candidates
                    /\ skippedZero' = skippedZero
                    /\ skippedBelowMin' = skippedBelowMin
            /\ scanIdx < Len(markets)
                 => /\ pc' = "scan"
                    /\ scanIdx' = scanIdx + 1
                    /\ balances' = PendingBalances
            /\ scanIdx = Len(markets) => pc' \in {"execute", "sleepNoCand", "sleepCycle"}
            /\ (scanIdx = Len(markets) /\ pc' = "sleepCycle") => candidates' # << >>
            /\ markets' = markets
            /\ \A k \in 1..Len(candidates') : PositionOf(candidates'[k].market) <= scanIdx
            /\ InInputOrder(candidates')]_vars

C12_Witness ==
    /\ pc = "execute"
    /\ Len(markets) = 3
    /\ skippedZero = 0
    /\ skippedBelowMin = 0
    /\ Len(candidates) = 2
    /\ candidates[1].market = markets[1]
    /\ candidates[2].market = markets[3]

(***************************************************************************)
(* C13: shutdown is one-shot for every interleaving of SIGINT and SIGTERM: *)
(* closeRedis() is entered at most once (only from the idle handler, which *)
(* is never idle again), a signal delivered once the flag is set changes   *)
(* nothing, and the process never ends with a status other than 0.         *)
(***************************************************************************)
workerVars == <<CONFIG, now, quotaTracker, pc, scanVars, batchVars, fnVars>>

C13_ShutdownOneShot ==
    [][/\ (shutdownPc' = "closing" /\ shutdownPc # "closing") => shutdownPc = "idle"
       /\ shutdownPc' = "idle" => shutdownPc = "idle"
       /\ (signals' # signals /\ isShuttingDown)
            => UNCHANGED <<isShuttingDown, shutdownPc, redisClient, proc, workerVars>>
       /\ proc' # "running" => proc' = "exit0"]_vars

(***************************************************************************)
(* C14: a shutdown request never interrupts an in-flight relay call or     *)
(* balance query: the process is never ended while relayer.execute,        *)
(* response.wait() or getTokenBalances is pending.                         *)
(***************************************************************************)
CallInFlight ==
    \/ pc \in {"execute", "wait"}
    \/ pc = "scan" /\ balances = PendingBalances

C14_NoExitDuringCall == proc # "running" => ~CallInFlight

(***************************************************************************)
(* C15: the shutdown flag is checked at the top of the cycle loop and      *)
(* before and after each sleep: with the flag set, the end of an           *)
(* inter-cycle sleep starts no new cycle (main() returns), and the end of  *)
(* a backoff sleep or of an inter-batch delay starts no relayer.execute.   *)
(***************************************************************************)
CycleSleeps == {"sleepCycle", "sleepQuota", "sleepNoCand"}

C15_FlagCheckedAroundSleeps ==
    [][isShuttingDown
         => /\ pc \in CycleSleeps
                 => \/ pc' = "returned"
                    \/ UNCHANGED <<pc, quotaTracker, scanVars, batchVars>>
            /\ pc \in {"backoff", "batchDelay"} => pc' # "execute"]_vars

(***************************************************************************)
(* C16: an attempt that fails with HTTP 429 and a data.error text holding  *)
(* "0 units remaining" sets callsThisHour to exactly HOURLY_QUOTA_LIMIT,   *)
(* adds the batch size to errorCount once, leaves mergedCount alone and    *)
(* ends the batch at once: no backoff sleep and no further                 *)
(* relayer.execute call, also when attempts remain.                        *)
(***************************************************************************)
\* the step finishes an attempt of the current batch with the outcome kind
AttemptEnds(kind) ==
    /\ pc \in {"execute", "wait"}
    /\ attemptLog' = Append(attemptLog, kind)

C16_ExhaustedOverride ==
    [][AttemptEnds("exhausted")
         => /\ Calls' = Limit
            /\ quotaTracker'.hourStartTime = quotaTracker.hourStartTime
            /\ errorCount' = errorCount + Len(batch)
            /\ mergedCount' = mergedCount
            /\ pc' \in {"batchDelay", "sleepCycle"}
            /\ execCalls' = execCalls
            /\ batches' = batches]_vars

C16_Witness ==
    /\ pc = "batchDelay"
    /\ attemptLog = <<"exhausted">>
    /\ attempts = 1
    /\ execCalls = 1
    /\ Calls = Limit
    /\ Len(batch) = 2
    /\ errorCount = 2
    /\ mergedCount = 0

(***************************************************************************)
(* C17: when the quota re-check at the head of the batch loop returns      *)
(* false, neither that batch nor a later batch of the cycle is submitted   *)
(* and none is counted as an error: mergedCount and errorCount keep their  *)
(* values, no batch is formed, and the cycle goes to its summary and the   *)
(* inter-cycle sleep, from where the next relayer.execute can only come    *)
(* after a new cycle has started.                                          *)
(***************************************************************************)
\* checkAndUpdateQuota() called in this state returns false
QuotaRefuses == Calls >= Limit /\ ~WindowElapsed

C17_BatchRefusalStopsCycle ==
    [][/\ (BatchCheckStep /\ QuotaRefuses)
            => /\ pc' = "sleepCycle"
               /\ cycleEnd' = "summary"
               /\ quotaStop'
               /\ mergedCount' = mergedCount
               /\ errorCount' = errorCount
               /\ batches' = batches
               /\ quotaTracker' = quotaTracker
       /\ (pc = "sleepCycle" /\ quotaStop)
            => \/ pc' = "returned"
               \/ UNCHANGED <<pc, batchVars>>
               \/ pc' \in {"fetch", "sleepQuota"} /\ batches' = << >>]_vars

C17_Witness ==
    /\ pc = "sleepCycle"
    /\ quotaStop
    /\ cycleEnd = "summary"
    /\ CONFIG.BATCH_SIZE = 1
    /\ Len(candidates) = 3
    /\ Len(batches) = 1
    /\ mergedCount = 1
    /\ errorCount = 0

(***************************************************************************)
(* C18: when checkAndUpdateQuota() returns false at the start of a cycle,  *)
(* the cycle fetches no metadata, reads no balance and submits nothing:    *)
(* the worker goes directly to the sleep of the quota branch, and the only *)
(* step the worker takes from that sleep is the re-evaluation of the loop  *)
(* condition.                                                              *)
(***************************************************************************)
C18_CycleRefusalSkipsWork ==
    [][/\ (CycleCheckStep /\ QuotaRefuses)
            => /\ pc' = "sleepQuota"
               /\ cycleEnd' = "quotaRefused"
               /\ markets' = << >>
               /\ scanIdx' = 0
               /\ balances' = NoBalances
               /\ candidates' = << >>
               /\ batches' = << >>
               /\ execCalls' = 0
               /\ quotaTracker' = quotaTracker
       /\ pc = "sleepQuota"
            => \/ SleepEnds
               \/ UNCHANGED <<pc, quotaTracker, scanVars, batchVars>>]_vars

C18_Witness ==
    /\ pc = "sleepQuota"
    /\ cycleEnd = "quotaRefused"
    /\ markets = << >>
    /\ execCalls = 0
    /\ Calls = Limit
    /\ now = quotaTracker.hourStartTime + TickMs

(***************************************************************************)
(* C19: an attempt that fails without a rate-limit signal (an error whose  *)
(* status is not 429, or a null result of wait()) is never retried: the    *)
(* batch ends with that attempt, without a backoff sleep and without a     *)
(* further relayer.execute call, errorCount grows by exactly the batch     *)
(* size and mergedCount is unchanged.  The batch has seen one call per     *)
(* attempt: exactly one when the failing attempt is its first, and one     *)
(* more for each rate-limited attempt that came before it.                 *)
(***************************************************************************)
NonRetryableEnds == AttemptEnds("error") \/ AttemptEnds("noResult")

C19_NonRateLimitNotRetried ==
    [][NonRetryableEnds
         => /\ pc' \in {"batchDelay", "sleepCycle"}
            /\ execCalls' = execCalls
            /\ execCalls' = Len(attemptLog')
            /\ attemptLog = << >> => execCalls' = 1
            /\ \A k \in 1..Len(attemptLog) : attemptLog[k] = "rateLimited"
            /\ errorCount' = errorCount + Len(batch)
            /\ mergedCount' = mergedCount]_vars

C19_Witness ==
    /\ pc \in {"batchDelay", "sleepCycle"}
    /\ attemptLog = <<"rateLimited", "error">>
    /\ execCalls = 2
    /\ Len(batch) = 2
    /\ errorCount = 2
    /\ mergedCount = 0

\* C19 as stated: whenever an attempt fails without a rate-limit signal, the
\* batch has seen exactly one relayer.execute call and no backoff sleep
C19_ExactlyOneCall ==
    [][NonRetryableEnds
         => /\ pc' \in {"batchDelay", "sleepCycle"}
            /\ execCalls' = 1
            /\ attemptLog = << >>
            /\ errorCount' = errorCount + Len(batch)
            /\ mergedCount' = mergedCount]_vars

(***************************************************************************)
(* C20: mergedCount grows by the batch size only when response.wait()      *)
(* returned a result that has a non-empty state; a result without a state  *)
(* is not counted as merged.                                               *)
(***************************************************************************)
C20_MergedOnlyWithState ==
    [][/\ mergedCount' > mergedCount
            => /\ AttemptEnds("ok")
               /\ mergedCount' = mergedCount + Len(batch)
       /\ AttemptEnds("okNoState") => mergedCount' = mergedCount]_vars

(***************************************************************************)
(* C21: a batch that ends as Failed for a reason other than quota          *)
(* exhaustion does not stop the cycle.  The end of a batch takes the       *)
(* inter-batch delay exactly when candidates remain beyond the batches     *)
(* formed so far, and goes to the cycle summary after the last batch; the  *)
(* end of the delay runs the quota re-check and, when it passes, forms the *)
(* next batch from the next candidates and submits it (unless encoding its *)
(* transactions throws, which is the top-level error of C11).              *)
(***************************************************************************)
\* the total size of the first k batches formed in this cycle
RECURSIVE SizeOfFirst(_)
SizeOfFirst(k) == IF k = 0 THEN 0 ELSE Len(batches[k]) + SizeOfFirst(k - 1)

MoreRemain == SizeOfFirst(Len(batches)) < Len(candidates)

FailedNotExhausted ==
    \/ AttemptEnds("error")
    \/ AttemptEnds("noResult")
    \/ AttemptEnds("rateLimited") /\ pc' # "backoff"

C21_FailedBatchContinues ==
    [][/\ FailedNotExhausted
            => /\ errorCount' = errorCount + Len(batch)
               /\ IF MoreRemain
                  THEN pc' = "batchDelay" /\ cycleEnd' = "none"
                  ELSE pc' = "sleepCycle" /\ cycleEnd' = "summary"
       /\ BatchEndStep => (pc' = "batchDelay" <=> MoreRemain)
       /\ pc' = "batchDelay" => MoreRemain'
       /\ (DelayEnds /\ ~QuotaRefuses)
            => LET done == SizeOfFirst(Len(batches))
                   next == SubSeq(candidates, done + 1,
                                  Min(done + CONFIG.BATCH_SIZE, Len(candidates)))
               IN  /\ batch' = next
                   /\ next # << >>
                   /\ \/ /\ pc' = "execute"
                         /\ execCalls' = 1
                         /\ batches' = Append(batches, next)
                      \/ /\ pc' = "sleepCycle"
                         /\ cycleEnd' = "error"
                         /\ batches' = batches]_vars

C21_Witness ==
    /\ pc = "execute"
    /\ now = 0
    /\ Len(batches) = 2
    /\ attemptLog = << >>
    /\ execCalls = 1
    /\ errorCount = Len(batches[1])
    /\ mergedCount = 0

(***************************************************************************)
(* C22: counted once.  The step that ends a submitted batch adds the batch *)
(* size to exactly one of mergedCount and errorCount, and no other step of *)
(* the cycle changes either counter; hence at every point of a cycle       *)
(* mergedCount + errorCount is the total size of the submitted batches     *)
(* that have ended, and is at most the number of eligible candidates.      *)
(***************************************************************************)
BatchInProgress == pc \in {"execute", "wait", "backoff"}

\* the number of submitted batches whose retry loop has ended
EndedBatches == IF BatchInProgress THEN Len(batches) - 1 ELSE Len(batches)

CountedOnce ==
    /\ mergedCount + errorCount = SizeOfFirst(EndedBatches)
    /\ mergedCount + errorCount <= Len(candidates)
    /\ BatchInProgress => (batches # << >> /\ batch = batches[Len(batches)])

C22_CountedOnce ==
    [][/\ CountedOnce
       /\ CountedOnce'
       /\ BatchEndStep
            => \/ mergedCount' = mergedCount + Len(batch) /\ errorCount' = errorCount
               \/ errorCount' = errorCount + Len(batch) /\ mergedCount' = mergedCount
       /\ ~BatchEndStep
            => \/ mergedCount' = mergedCount /\ errorCount' = errorCount
               \/ mergedCount' = 0 /\ errorCount' = 0 /\ batches' = << >>]_vars

C22_Witness ==
    /\ pc = "execute"
    /\ CONFIG.BATCH_SIZE = 1
    /\ Len(batches) = 3
    /\ mergedCount = 1
    /\ errorCount = 1
    /\ attemptLog = <<"rateLimited">>
    /\ execCalls = 2

(***************************************************************************)
(* C23: on every path through a cycle exactly one inter-cycle sleep lies   *)
(* between the end of the cycle and the start of the next.  A cycle that   *)
(* has ended is suspended in the one sleep of its path (quota refused: the *)
(* sleep of the quota branch; no candidates: the sleep of that branch;     *)
(* summary, quota stop or caught error: the sleep after the try), a cycle  *)
(* in progress is in no such sleep, and the step that ends the sleep       *)
(* evaluates the loop condition and starts the next cycle with its quota   *)
(* check, without a second sleep for the cycle that ended.                 *)
(***************************************************************************)
SleepOfPath ==
    CASE cycleEnd = "quotaRefused" -> "sleepQuota"
      [] cycleEnd = "noCandidates" -> "sleepNoCand"
      [] cycleEnd \in {"summary", "error"} -> "sleepCycle"
      [] OTHER -> "none"

OneSleepPerCycle ==
    /\ cycleEnd \in {"none", "quotaRefused", "noCandidates", "summary", "error"}
    /\ cycleEnd # "none" => pc \in {SleepOfPath, "returned"}
    /\ cycleEnd = "none" => pc \notin CycleSleeps

C23_ExactlyOneSleep ==
    [][/\ OneSleepPerCycle
       /\ OneSleepPerCycle'
       /\ (cycleEnd = "none" /\ cycleEnd' # "none" /\ pc \notin CycleSleeps)
            => pc' = SleepOfPath'
       /\ (pc \in CycleSleeps /\ <<pc, quotaTracker, scanVars, batchVars>>'
                                    # <<pc, quotaTracker, scanVars, batchVars>>)
            => /\ SleepEnds
               /\ \/ pc' = "returned" /\ isShuttingDown
                  \/ /\ quotaTracker' = IF WindowElapsed
                                        THEN [callsThisHour |-> 0, hourStartTime |-> now]
                                        ELSE quotaTracker
                     /\ markets' = << >>
                     /\ batches' = << >>
                     /\ \/ pc' = "fetch" /\ cycleEnd' = "none"
                        \/ pc' = "sleepQuota" /\ cycleEnd' = "quotaRefused"
                                              /\ QuotaRefuses]_vars

C23_Witness ==
    /\ pc = "fetch"
    /\ cycleEnd = "none"
    /\ Calls = 1
    /\ now = TickMs
    /\ batches = << >>

=============================================================================
